---------------------------- MODULE Spec2Model ----------------------------
(***************************************************************************)
(* Model of src/src/exercises/exercises.rs: the revocation-key derivation, *)
(* the script templates and the five channel-transaction builders.         *)
(*                                                                         *)
(* Every function of the file is pure, so the state of the model is the    *)
(* last call made (its name and arguments) and the value it returned.      *)
(* One action per public function draws the arguments from bounded sets    *)
(* and applies the function.                                               *)
(*                                                                         *)
(* Representation.                                                         *)
(*  - Bytes are integers 0..255, a script (ScriptBuf) is a sequence of     *)
(*    bytes, as in the bitcoin crate.                                      *)
(*  - u64 amounts are four 16-bit limbs, most significant first, and u32   *)
(*    values (sequence numbers, lock times) are two 16-bit limbs, so that  *)
(*    the full width of the Rust types is kept.                            *)
(*  - The secp256k1 group is replaced by the subgroup of prime order       *)
(*    GroupOrder of the multiplicative group modulo FieldPrime, generated  *)
(*    by Generator: a point is a residue, point addition is multiplication *)
(*    modulo FieldPrime, multiplication of a point by a scalar is          *)
(*    exponentiation, the point at infinity is 1.  Scalars are residues    *)
(*    modulo GroupOrder.  The library calls that fail (a zero tweak, a     *)
(*    sum that is the point at infinity or the zero scalar) are unwrapped  *)
(*    by the helpers; the failure is represented by the invalid value      *)
(*    itself (the point 1, the scalar 0) and is propagated.                *)
(*  - SHA-256 and HASH160 are replaced by short polynomial digests.        *)
(***************************************************************************)
EXTENDS Integers, Sequences, FiniteSets, TLC

VARIABLES call, result

vars == <<call, result>>

(***************************************************************************)
(* Bounds of the model.                                                    *)
(***************************************************************************)
\* public keys handed to the script and transaction builders: points
\* Generator^1 .. Generator^NumKeys
NumKeys == 2
\* outpoints the callers' inputs spend from: txids 1..NumTxids
NumTxids == 2
\* longest input list handed to build_funding_transaction
MaxInputs == 2

(***************************************************************************)
(* The group standing for secp256k1.                                       *)
(***************************************************************************)
FieldPrime == 23
GroupOrder == 11
Generator == 2

RECURSIVE ModExp(_, _, _)
ModExp(b, e, m) == IF e = 0 THEN 1 % m ELSE (b * ModExp(b, e - 1, m)) % m

SecretKeys == 1 .. (GroupOrder - 1)

\* internal::key_utils::pubkey_from_secret: PublicKey::from_secret_key
pubkey_from_secret(secret) == ModExp(Generator, secret, FieldPrime)

Points == { pubkey_from_secret(s) : s \in SecretKeys }

(***************************************************************************)
(* Bytes, digests, serialization.                                          *)
(***************************************************************************)
RECURSIVE Fold(_, _, _, _)
Fold(bytes, i, h, mult) ==
    IF i > Len(bytes) THEN h
    ELSE Fold(bytes, i + 1, (h * mult + bytes[i] + 1) % 256, mult)

\* sha256 (32 bytes in the program, 3 here)
Sha256(bytes) == << Fold(bytes, 1, 7, 31), Fold(bytes, 1, 11, 17), Fold(bytes, 1, 13, 5) >>

\* hash160 = ripemd160(sha256(.)) (20 bytes in the program, 2 here)
Hash160(bytes) == << Fold(bytes, 1, 3, 29), Fold(bytes, 1, 5, 13) >>

\* PublicKey::serialize / to_bytes: compressed form, a parity byte 2 or 3
\* followed by the x coordinate
SerializeKey(point) == << 2 + (point % 2), point >>

\* internal::key_utils::hash_pubkeys: sha256 of the two serialized keys,
\* concatenated in argument order, read as a big-endian scalar
hash_pubkeys(key1, key2) ==
    LET d == Sha256(SerializeKey(key1) \o SerializeKey(key2))
    IN  (d[1] * 256 * 256 + d[2] * 256 + d[3]) % GroupOrder

\* internal::key_utils::pubkey_multipication_tweak: PublicKey::mul_tweak,
\* unwrapped; a zero tweak or an invalid point is a failure (the point 1)
pubkey_multipication_tweak(point, tweak) ==
    IF point = 1 \/ tweak = 0 THEN 1 ELSE ModExp(point, tweak, FieldPrime)

\* internal::key_utils::add_pubkeys: PublicKey::combine, unwrapped; a sum
\* that is the point at infinity is a failure (the point 1)
add_pubkeys(p1, p2) ==
    IF p1 = 1 \/ p2 = 1 THEN 1 ELSE (p1 * p2) % FieldPrime

\* internal::key_utils::privkey_multipication_tweak: SecretKey::mul_tweak,
\* unwrapped; a zero tweak or an invalid secret is a failure (the scalar 0)
privkey_multipication_tweak(secret, tweak) ==
    IF secret = 0 \/ tweak = 0 THEN 0 ELSE (secret * tweak) % GroupOrder

\* internal::key_utils::add_privkeys: SecretKey::add_tweak, unwrapped; a zero
\* sum is a failure (the scalar 0)
add_privkeys(s1, s2) ==
    IF s1 = 0 \/ s2 = 0 THEN 0 ELSE (s1 + s2) % GroupOrder

(***************************************************************************)
(* Exercise 4: generate_revocation_pubkey                                  *)
(***************************************************************************)
generate_revocation_pubkey_same_tweak(countersignatory_basepoint, per_commitment_point) ==
    LET tweak1 == hash_pubkeys(countersignatory_basepoint, per_commitment_point)
        p1 == pubkey_multipication_tweak(countersignatory_basepoint, tweak1)
        p2 == pubkey_multipication_tweak(per_commitment_point, tweak1)
    IN  add_pubkeys(p1, p2)

generate_revocation_pubkey(countersignatory_basepoint, per_commitment_point) ==
    LET tweak1 == hash_pubkeys(countersignatory_basepoint, per_commitment_point)
        tweak2 == hash_pubkeys(per_commitment_point, countersignatory_basepoint)
        p1 == pubkey_multipication_tweak(countersignatory_basepoint, tweak1)
        p2 == pubkey_multipication_tweak(per_commitment_point, tweak2)
    IN  add_pubkeys(p1, p2)

(***************************************************************************)
(* Exercise 5: generate_revocation_privkey                                 *)
(***************************************************************************)
generate_revocation_privkey_swapped_tweaks(countersignatory_per_commitment_secret, revocation_base_secret) ==
    LET base_point == pubkey_from_secret(revocation_base_secret)
        per_commitment_point == pubkey_from_secret(countersignatory_per_commitment_secret)
        tweak1 == hash_pubkeys(base_point, per_commitment_point)
        tweak2 == hash_pubkeys(per_commitment_point, base_point)
        sk1 == privkey_multipication_tweak(revocation_base_secret, tweak2)
        sk2 == privkey_multipication_tweak(countersignatory_per_commitment_secret, tweak1)
    IN  add_privkeys(sk1, sk2)

generate_revocation_privkey(countersignatory_per_commitment_secret, revocation_base_secret) ==
    LET base_point == pubkey_from_secret(revocation_base_secret)
        per_commitment_point == pubkey_from_secret(countersignatory_per_commitment_secret)
        tweak1 == hash_pubkeys(base_point, per_commitment_point)
        tweak2 == hash_pubkeys(per_commitment_point, base_point)
        sk1 == privkey_multipication_tweak(revocation_base_secret, tweak1)
        sk2 == privkey_multipication_tweak(countersignatory_per_commitment_secret, tweak2)
    IN  add_privkeys(sk1, sk2)

(***************************************************************************)
(* bitcoin::script::Builder, as the functions below use it.  A builder is  *)
(* the byte sequence written so far.                                       *)
(***************************************************************************)
OP_0 == 0
OP_PUSHNUM_1 == 81
OP_IF == 99
OP_ELSE == 103
OP_ENDIF == 104
OP_DROP == 117
OP_CSV == 178
OP_CHECKSIG == 172
OP_CHECKMULTISIG == 174

push_opcode(builder, opcode) == Append(builder, opcode)

\* Builder::push_slice for data shorter than 76 bytes: a length byte, the data
push_slice(builder, data) == (builder \o << Len(data) >>) \o data

\* Builder::push_key: the serialized (compressed) key as push-data
push_key(builder, key) == push_slice(builder, SerializeKey(key))

\* bitcoin::script::write_scriptint: little-endian sign-magnitude
RECURSIVE scriptint_bytes(_, _)
scriptint_bytes(abs, neg) ==
    IF abs > 255 THEN << abs % 256 >> \o scriptint_bytes(abs \div 256, neg)
    ELSE IF abs >= 128 THEN << abs, IF neg THEN 128 ELSE 0 >>
    ELSE << abs + (IF neg THEN 128 ELSE 0) >>

\* Builder::push_int(i64): -1 and 1..16 have opcodes of their own, 0 is OP_0,
\* any other value is pushed as a script number.  It is infallible.
push_int(builder, data) ==
    IF data = -1 \/ (data >= 1 /\ data <= 16)
        THEN push_opcode(builder, data - 1 + OP_PUSHNUM_1)
    ELSE IF data = 0 THEN push_opcode(builder, OP_0)
    ELSE push_slice(builder, scriptint_bytes(IF data < 0 THEN -data ELSE data, data < 0))

\* ScriptBuf::new_p2wsh(&script.wscript_hash()): OP_0 <sha256(script)>
new_p2wsh(witness_script) == push_slice(<< OP_0 >>, Sha256(witness_script))

\* internal::script_utils::p2wpkh_output_script: OP_0 <hash160(key)>
p2wpkh_output_script(pubkey) == push_slice(<< OP_0 >>, Hash160(SerializeKey(pubkey)))

\* internal::script_utils::build_htlc_offerer_witness_script: the offered
\* HTLC script, spendable with the revocation key, or by the remote party
\* with the payment preimage, or by both parties after the timeout
build_htlc_offerer_witness_script(revocation_pubkey, remote_htlc_pubkey, local_htlc_pubkey, payment_hash160) ==
    LET b1 == push_slice(<< 118, 169 >>, Hash160(SerializeKey(revocation_pubkey)))
        b2 == push_key(b1 \o << 135, 99, 172, 103 >>, remote_htlc_pubkey)
        b3 == push_key(push_int(b2 \o << 124, 130 >>, 32) \o << 135, 100, 117, 82, 124 >>,
                       local_htlc_pubkey)
        b4 == push_slice(b3 \o << 82, 174, 103, 169 >>, payment_hash160)
    IN  b4 \o << 136, 172, 104, 104 >>

(***************************************************************************)
(* Amounts (u64), 32-bit values, orderings.                                *)
(***************************************************************************)
\* a u64 below 65536
Sat(n) == << 0, 0, 0, n >>

\* u64::MAX
MaxAmount == << 65535, 65535, 65535, 65535 >>

\* Ord::cmp of two byte strings (Vec<u8>, ScriptBuf) or of two limb
\* sequences: lexicographic, a proper prefix first
RECURSIVE SeqCmp(_, _, _)
SeqCmp(a, b, i) ==
    IF i > Len(a) /\ i > Len(b) THEN "Equal"
    ELSE IF i > Len(a) THEN "Less"
    ELSE IF i > Len(b) THEN "Greater"
    ELSE IF a[i] < b[i] THEN "Less"
    ELSE IF a[i] > b[i] THEN "Greater"
    ELSE SeqCmp(a, b, i + 1)

\* Sequence::MAX, 0xFFFFFFFF: disables the absolute lock time
SequenceMax == << 65535, 65535 >>
\* Sequence::ENABLE_LOCKTIME_NO_RBF, 0xFFFFFFFE
SequenceEnableLocktimeNoRbf == << 65535, 65534 >>
\* Sequence::ZERO
SequenceZero == << 0, 0 >>

\* LockTime::from_consensus: a block height below 500,000,000, else a time
from_consensus(n) ==
    [unit |-> IF SeqCmp(n, << 7629, 25856 >>, 1) = "Less" THEN "Blocks" ELSE "Seconds",
     n |-> n]

\* LockTime::ZERO
LockTimeZero == [unit |-> "Blocks", n |-> << 0, 0 >>]

(***************************************************************************)
(* internal::tx_utils                                                      *)
(***************************************************************************)
\* build_output: TxOut { value, script_pubkey }
build_output(amount, script) == [value |-> amount, script_pubkey |-> script]

\* build_transaction: Transaction { version, lock_time, input, output }
build_transaction(version, locktime, tx_ins, tx_outs) ==
    [version |-> version, lock_time |-> locktime, input |-> tx_ins, output |-> tx_outs]

(***************************************************************************)
(* The comparators the three builders hand to sort_by (each builder writes *)
(* its own closure), and slice::sort_by, a stable sort.                    *)
(***************************************************************************)
RefundCmp_descending(a, b) ==
    LET c == SeqCmp(b.value, a.value, 1)
    IN  IF c # "Equal" THEN c ELSE SeqCmp(a.script_pubkey, b.script_pubkey, 1)

\* build_refund_transaction:
\* |a, b| a.value.cmp(&b.value).then_with(|| a.script_pubkey.cmp(&b.script_pubkey))
RefundCmp(a, b) ==
    LET c == SeqCmp(a.value, b.value, 1)
    IN  IF c # "Equal" THEN c ELSE SeqCmp(a.script_pubkey, b.script_pubkey, 1)

\* build_commitment_transaction: the same closure
CommitmentCmp(a, b) ==
    LET c == SeqCmp(a.value, b.value, 1)
    IN  IF c # "Equal" THEN c ELSE SeqCmp(a.script_pubkey, b.script_pubkey, 1)

HtlcCommitmentCmp_value_only(a, b) == SeqCmp(a.value, b.value, 1)

\* build_htlc_commitment_transaction: the same closure
HtlcCommitmentCmp(a, b) ==
    LET c == SeqCmp(a.value, b.value, 1)
    IN  IF c # "Equal" THEN c ELSE SeqCmp(a.script_pubkey, b.script_pubkey, 1)

\* the closure written at call site `site`
Compare(site, a, b) ==
    CASE site = "build_refund_transaction" -> RefundCmp(a, b)
      [] site = "build_commitment_transaction" -> CommitmentCmp(a, b)
      [] site = "build_htlc_commitment_transaction" -> HtlcCommitmentCmp(a, b)

\* stable insertion of x into the sorted sequence s: after every element
\* that is not greater than x
RECURSIVE InsertSorted(_, _, _)
InsertSorted(s, x, site) ==
    IF s = << >> THEN << x >>
    ELSE IF Compare(site, x, Head(s)) = "Less" THEN << x >> \o s
    ELSE << Head(s) >> \o InsertSorted(Tail(s), x, site)

\* outputs.sort_by(closure of `site`)
RECURSIVE sort_by(_, _)
sort_by(outputs, site) ==
    IF outputs = << >> THEN << >>
    ELSE InsertSorted(sort_by(SubSeq(outputs, 1, Len(outputs) - 1), site),
                      outputs[Len(outputs)], site)

(***************************************************************************)
(* Exercise 1: two_of_two_multisig_witness_script                          *)
(***************************************************************************)
two_of_two_multisig_witness_script_sorted(pubkey1, pubkey2) ==
    LET lo == IF SeqCmp(SerializeKey(pubkey1), SerializeKey(pubkey2), 1) = "Greater"
                THEN pubkey2 ELSE pubkey1
        hi == IF lo = pubkey1 THEN pubkey2 ELSE pubkey1
    IN  push_opcode(push_int(push_key(push_key(push_int(<< >>, 2), lo), hi), 2),
                    OP_CHECKMULTISIG)

two_of_two_multisig_witness_script(pubkey1, pubkey2) ==
    LET keys == << pubkey1, pubkey2 >>
    IN  push_opcode(push_int(push_key(push_key(push_int(<< >>, 2), keys[1]), keys[2]), 2),
                    OP_CHECKMULTISIG)

(***************************************************************************)
(* Exercise 2: build_funding_transaction                                   *)
(***************************************************************************)
build_funding_transaction_keys_swapped(txins, alice_pubkey, bob_pubkey, amount) ==
    LET witness_script == two_of_two_multisig_witness_script(bob_pubkey, alice_pubkey)
        output == build_output(amount, new_p2wsh(witness_script))
    IN  build_transaction(2, LockTimeZero, txins, << output >>)

build_funding_transaction(txins, alice_pubkey, bob_pubkey, amount) ==
    LET witness_script == two_of_two_multisig_witness_script(alice_pubkey, bob_pubkey)
        p2wsh_script_pubkey == new_p2wsh(witness_script)
        output == build_output(amount, p2wsh_script_pubkey)
    IN  build_transaction(2, LockTimeZero, txins, << output >>)

(***************************************************************************)
(* Exercise 3: build_refund_transaction                                    *)
(***************************************************************************)
build_refund_transaction(funding_txin, alice_pubkey, bob_pubkey, alice_balance, bob_balance) ==
    LET alice_script == p2wpkh_output_script(alice_pubkey)
        bob_script == p2wpkh_output_script(bob_pubkey)
        alice_output == build_output(alice_balance, alice_script)
        bob_output == build_output(bob_balance, bob_script)
        outputs == sort_by(<< alice_output, bob_output >>, "build_refund_transaction")
    IN  build_transaction(2, LockTimeZero, << funding_txin >>, outputs)

(***************************************************************************)
(* Exercise 6: to_local                                                    *)
(***************************************************************************)
to_local(revocation_key, to_local_delayed_pubkey, to_self_delay) ==
    LET b1 == push_key(push_opcode(<< >>, OP_IF), revocation_key)
        b2 == push_int(push_opcode(b1, OP_ELSE), to_self_delay)
        b3 == push_key(push_opcode(push_opcode(b2, OP_CSV), OP_DROP), to_local_delayed_pubkey)
    IN  push_opcode(push_opcode(b3, OP_ENDIF), OP_CHECKSIG)

(***************************************************************************)
(* Exercise 7: build_commitment_transaction                                *)
(***************************************************************************)
build_commitment_transaction(funding_txin, revocation_pubkey, to_local_delayed_pubkey, remote_pubkey, to_self_delay, local_amount, remote_amount) ==
    LET to_local_script == to_local(revocation_pubkey, to_local_delayed_pubkey, to_self_delay)
        to_local_p2wsh == new_p2wsh(to_local_script)
        local_output == build_output(local_amount, to_local_p2wsh)
        remote_script == p2wpkh_output_script(remote_pubkey)
        remote_output == build_output(remote_amount, remote_script)
        outputs == sort_by(<< local_output, remote_output >>, "build_commitment_transaction")
    IN  build_transaction(2, LockTimeZero, << funding_txin >>, outputs)

(***************************************************************************)
(* Exercise 8: build_htlc_commitment_transaction                           *)
(***************************************************************************)
build_htlc_commitment_transaction_wrong_amount(funding_txin, revocation_pubkey, remote_htlc_pubkey, local_htlc_pubkey, to_local_delayed_pubkey, remote_pubkey, to_self_delay, payment_hash160, htlc_amount, local_amount, remote_amount) ==
    LET to_local_script == to_local(revocation_pubkey, to_local_delayed_pubkey, to_self_delay)
        local_output == build_output(local_amount, new_p2wsh(to_local_script))
        remote_output == build_output(remote_amount, p2wpkh_output_script(remote_pubkey))
        htlc_script == build_htlc_offerer_witness_script(revocation_pubkey, remote_htlc_pubkey,
                                                         local_htlc_pubkey, payment_hash160)
        htlc_output == build_output(local_amount, new_p2wsh(htlc_script))
        outputs == sort_by(<< local_output, remote_output, htlc_output >>,
                           "build_htlc_commitment_transaction")
    IN  build_transaction(2, LockTimeZero, << funding_txin >>, outputs)

build_htlc_commitment_transaction(funding_txin, revocation_pubkey, remote_htlc_pubkey, local_htlc_pubkey, to_local_delayed_pubkey, remote_pubkey, to_self_delay, payment_hash160, htlc_amount, local_amount, remote_amount) ==
    LET to_local_script == to_local(revocation_pubkey, to_local_delayed_pubkey, to_self_delay)
        to_local_p2wsh == new_p2wsh(to_local_script)
        local_output == build_output(local_amount, to_local_p2wsh)
        remote_script == p2wpkh_output_script(remote_pubkey)
        remote_output == build_output(remote_amount, remote_script)
        htlc_script == build_htlc_offerer_witness_script(revocation_pubkey, remote_htlc_pubkey,
                                                         local_htlc_pubkey, payment_hash160)
        htlc_p2wsh == new_p2wsh(htlc_script)
        htlc_output == build_output(htlc_amount, htlc_p2wsh)
        outputs == sort_by(<< local_output, remote_output, htlc_output >>,
                           "build_htlc_commitment_transaction")
    IN  build_transaction(2, LockTimeZero, << funding_txin >>, outputs)

(***************************************************************************)
(* Exercise 9: build_htlc_timeout_transaction                              *)
(***************************************************************************)
build_htlc_timeout_transaction(htlc_txin, revocation_pubkey, to_local_delayed_pubkey, to_self_delay, cltv_expiry, htlc_amount) ==
    LET to_local_script == to_local(revocation_pubkey, to_local_delayed_pubkey, to_self_delay)
        to_local_p2wsh == new_p2wsh(to_local_script)
        output == build_output(htlc_amount, to_local_p2wsh)
        tx == build_transaction(2, LockTimeZero, << htlc_txin >>, << output >>)
    IN  [tx EXCEPT !.lock_time = from_consensus(cltv_expiry)]

(***************************************************************************)
(* The arguments the calls are made with.                                  *)
(***************************************************************************)
PublicKeys == { pubkey_from_secret(s) : s \in 1 .. NumKeys }

\* u64 amounts: 300, 700 and u64::MAX
Amounts == { Sat(300), Sat(700), MaxAmount }

Sequences == { SequenceMax, SequenceEnableLocktimeNoRbf, SequenceZero }

\* unsigned inputs: an outpoint, an empty script_sig, a sequence number, an
\* empty witness
TxIns ==
    [previous_output : [txid : 1 .. NumTxids, vout : {0}],
     script_sig : {<< >>},
     sequence : Sequences,
     witness : {<< >>}]

\* inputs that spend a funding output with the final sequence number
FundingTxIns == { t \in TxIns : t.sequence = SequenceMax }

\* the HTLC keys and the delayed key of build_htlc_commitment_transaction
HtlcKeys == { pubkey_from_secret(3), pubkey_from_secret(4) }

\* the delays build_htlc_commitment_transaction is called with
HtlcBuilderDelays == { 144, 65536 }

TxInLists == UNION { [1 .. n -> TxIns] : n \in 0 .. MaxInputs }

\* to_self_delay is an i64; the relative lock time in blocks is 0..65535
ToSelfDelays == { -2, -1, 0, 1, 16, 17, 144, 65535, 65536 }

BuilderDelays == { -1, 144, 65536 }

DelayInRange(d) == d >= 0 /\ d <= 65535

\* 20 bytes in the program, 2 here
PaymentHashes == { << 1, 2 >>, << 3, 4 >> }

\* u32 lock times: 0, 500000, 499999999, 500000000, u32::MAX
CltvExpiries == { << 0, 0 >>, << 7, 41248 >>, << 7629, 25855 >>, << 7629, 25856 >>,
                  << 65535, 65535 >> }

(***************************************************************************)
(* State machine.                                                          *)
(***************************************************************************)
Init ==
    /\ call = [op |-> "none"]
    /\ result = [kind |-> "none"]

GenerateRevocationPubkey ==
    /\ call.op = "none"
    /\ \E basepoint \in Points, point \in Points :
           /\ call' = [op |-> "generate_revocation_pubkey",
                       countersignatory_basepoint |-> basepoint,
                       per_commitment_point |-> point]
           /\ result' = [kind |-> "pubkey",
                         key |-> generate_revocation_pubkey(basepoint, point)]

GenerateRevocationPrivkey ==
    /\ call.op = "none"
    /\ \E pcs \in SecretKeys, base \in SecretKeys :
           /\ call' = [op |-> "generate_revocation_privkey",
                       countersignatory_per_commitment_secret |-> pcs,
                       revocation_base_secret |-> base]
           /\ result' = [kind |-> "privkey",
                         key |-> generate_revocation_privkey(pcs, base)]

TwoOfTwoMultisigWitnessScript ==
    /\ call.op = "none"
    /\ \E pubkey1 \in Points, pubkey2 \in Points :
           /\ call' = [op |-> "two_of_two_multisig_witness_script",
                       pubkey1 |-> pubkey1, pubkey2 |-> pubkey2]
           /\ result' = [kind |-> "script",
                         script |-> two_of_two_multisig_witness_script(pubkey1, pubkey2)]

BuildFundingTransaction ==
    /\ call.op = "none"
    /\ \E txins \in TxInLists, alice \in PublicKeys, bob \in PublicKeys, amount \in Amounts :
           /\ call' = [op |-> "build_funding_transaction", txins |-> txins,
                       alice_pubkey |-> alice, bob_pubkey |-> bob, amount |-> amount]
           /\ result' = [kind |-> "tx",
                         tx |-> build_funding_transaction(txins, alice, bob, amount)]

BuildRefundTransaction ==
    /\ call.op = "none"
    /\ \E txin \in TxIns, alice \in PublicKeys, bob \in PublicKeys,
          alice_balance \in Amounts, bob_balance \in Amounts :
           /\ call' = [op |-> "build_refund_transaction", funding_txin |-> txin,
                       alice_pubkey |-> alice, bob_pubkey |-> bob,
                       alice_balance |-> alice_balance, bob_balance |-> bob_balance]
           /\ result' = [kind |-> "tx",
                         tx |-> build_refund_transaction(txin, alice, bob,
                                                         alice_balance, bob_balance)]

ToLocal ==
    /\ call.op = "none"
    /\ \E revocation \in Points, delayed \in Points, delay \in ToSelfDelays :
           /\ call' = [op |-> "to_local", revocation_key |-> revocation,
                       to_local_delayed_pubkey |-> delayed, to_self_delay |-> delay]
           /\ result' = [kind |-> "script", script |-> to_local(revocation, delayed, delay)]

BuildCommitmentTransaction ==
    /\ call.op = "none"
    /\ \E txin \in TxIns, revocation \in PublicKeys, delayed \in PublicKeys,
          remote \in PublicKeys, delay \in BuilderDelays,
          local_amount \in Amounts, remote_amount \in Amounts :
           /\ call' = [op |-> "build_commitment_transaction", funding_txin |-> txin,
                       revocation_pubkey |-> revocation, to_local_delayed_pubkey |-> delayed,
                       remote_pubkey |-> remote, to_self_delay |-> delay,
                       local_amount |-> local_amount, remote_amount |-> remote_amount]
           /\ result' = [kind |-> "tx",
                         tx |-> build_commitment_transaction(txin, revocation, delayed, remote,
                                                             delay, local_amount, remote_amount)]

BuildHtlcCommitmentTransaction ==
    /\ call.op = "none"
    /\ \E txin \in FundingTxIns, revocation \in PublicKeys, remote_htlc \in HtlcKeys,
          local_htlc \in HtlcKeys, delayed \in HtlcKeys, remote \in PublicKeys,
          delay \in HtlcBuilderDelays, payment_hash \in PaymentHashes,
          htlc_amount \in Amounts, local_amount \in Amounts, remote_amount \in Amounts :
           /\ call' = [op |-> "build_htlc_commitment_transaction", funding_txin |-> txin,
                       revocation_pubkey |-> revocation, remote_htlc_pubkey |-> remote_htlc,
                       local_htlc_pubkey |-> local_htlc, to_local_delayed_pubkey |-> delayed,
                       remote_pubkey |-> remote, to_self_delay |-> delay,
                       payment_hash160 |-> payment_hash, htlc_amount |-> htlc_amount,
                       local_amount |-> local_amount, remote_amount |-> remote_amount]
           /\ result' = [kind |-> "tx",
                         tx |-> build_htlc_commitment_transaction(txin, revocation, remote_htlc,
                                    local_htlc, delayed, remote, delay, payment_hash,
                                    htlc_amount, local_amount, remote_amount)]

BuildHtlcTimeoutTransaction ==
    /\ call.op = "none"
    /\ \E txin \in TxIns, revocation \in PublicKeys, delayed \in PublicKeys,
          delay \in BuilderDelays, cltv_expiry \in CltvExpiries, htlc_amount \in Amounts :
           /\ call' = [op |-> "build_htlc_timeout_transaction", htlc_txin |-> txin,
                       revocation_pubkey |-> revocation, to_local_delayed_pubkey |-> delayed,
                       to_self_delay |-> delay, cltv_expiry |-> cltv_expiry,
                       htlc_amount |-> htlc_amount]
           /\ result' = [kind |-> "tx",
                         tx |-> build_htlc_timeout_transaction(txin, revocation, delayed, delay,
                                                               cltv_expiry, htlc_amount)]

\* the caller takes the returned value; nothing is kept between calls
Return ==
    /\ call.op # "none"
    /\ call' = [op |-> "none"]
    /\ result' = [kind |-> "none"]

Next ==
    \/ TwoOfTwoMultisigWitnessScript
    \/ BuildFundingTransaction
    \/ BuildRefundTransaction
    \/ GenerateRevocationPubkey
    \/ GenerateRevocationPrivkey
    \/ ToLocal
    \/ BuildCommitmentTransaction
    \/ BuildHtlcCommitmentTransaction
    \/ BuildHtlcTimeoutTransaction
    \/ Return

Spec == Init /\ [][Next]_vars

(***************************************************************************)
(* C1: generate_revocation_pubkey is symmetric: the key returned for       *)
(* (A, B) is the key the function yields for (B, A), a failed derivation   *)
(* (the invalid point 1) included.                                         *)
(***************************************************************************)
C1_RevocationPubkeySymmetric ==
    call.op = "generate_revocation_pubkey" =>
        result.key = generate_revocation_pubkey(call.per_commitment_point,
                                                call.countersignatory_basepoint)

\* a derivation that succeeded, of two different points whose two tweaks differ
C1_Witness ==
    /\ call.op = "generate_revocation_pubkey"
    /\ call.countersignatory_basepoint # call.per_commitment_point
    /\ hash_pubkeys(call.countersignatory_basepoint, call.per_commitment_point)
         # hash_pubkeys(call.per_commitment_point, call.countersignatory_basepoint)
    /\ result.key # 1

(***************************************************************************)
(* C2: the public key of generate_revocation_privkey(s1, s2) is            *)
(* generate_revocation_pubkey of the public counterparts, with the         *)
(* arguments in declared order (base point, then per-commitment point) and *)
(* swapped; the two derivations fail together.                             *)
(***************************************************************************)
C2_PrivkeyMatchesPubkey ==
    call.op = "generate_revocation_privkey" =>
        LET base_point == pubkey_from_secret(call.revocation_base_secret)
            point == pubkey_from_secret(call.countersignatory_per_commitment_secret)
        IN  /\ pubkey_from_secret(result.key) = generate_revocation_pubkey(base_point, point)
            /\ pubkey_from_secret(result.key) = generate_revocation_pubkey(point, base_point)

\* a derivation that succeeded, of two different secrets
C2_Witness ==
    /\ call.op = "generate_revocation_privkey"
    /\ call.revocation_base_secret # call.countersignatory_per_commitment_secret
    /\ result.key # 0

(***************************************************************************)
(* Vocabulary of the claims about transactions.                            *)
(***************************************************************************)
SortingBuilders ==
    { "build_refund_transaction", "build_commitment_transaction",
      "build_htlc_commitment_transaction" }

DelayBuilders ==
    { "to_local", "build_commitment_transaction", "build_htlc_commitment_transaction",
      "build_htlc_timeout_transaction" }

\* a precedes b in the lexicographic order of sequences of numbers (bytes of
\* a script, limbs of an amount, most significant first)
LexLess(a, b) ==
    \E k \in 1 .. (Len(b)) :
        /\ k <= Len(a) + 1
        /\ \A i \in 1 .. (k - 1) : a[i] = b[i]
        /\ (k = Len(a) + 1 \/ a[k] < b[k])

\* the outputs are in ascending order of value, equal values in ascending
\* byte order of script_pubkey
InCanonicalOrder(outputs) ==
    \A i \in 1 .. Len(outputs), j \in 1 .. Len(outputs) :
        i < j =>
            \/ LexLess(outputs[i].value, outputs[j].value)
            \/ /\ outputs[i].value = outputs[j].value
               /\ \/ LexLess(outputs[i].script_pubkey, outputs[j].script_pubkey)
                  \/ outputs[i].script_pubkey = outputs[j].script_pubkey

\* the sequence outputs rearranged by the permutation p of its indices
Permuted(outputs, p) == [i \in 1 .. Len(outputs) |-> outputs[p[i]]]

\* the two sequences hold the same elements, each as many times
SameMultiset(xs, ys) ==
    /\ Len(xs) = Len(ys)
    /\ \E p \in Permutations(1 .. Len(xs)) : Permuted(xs, p) = ys

\* the witness program of a script: OP_0, then the pushed digest
P2wsh(script) == << 0, 3 >> \o Sha256(script)
P2wpkh(key) == << 0, 2 >> \o Hash160(SerializeKey(key))

\* the carry out of a + b, which is 1 when the sum exceeds the width of the
\* type, and the sum modulo that width
RECURSIVE CarryOut(_, _, _)
CarryOut(a, b, i) ==
    IF i > Len(a) THEN 0
    ELSE (a[i] + b[i] + CarryOut(a, b, i + 1)) \div 65536

RECURSIVE WrappingAdd(_, _, _)
WrappingAdd(a, b, i) ==
    IF i > Len(a) THEN << >>
    ELSE << (a[i] + b[i] + CarryOut(a, b, i + 1)) % 65536 >> \o WrappingAdd(a, b, i + 1)

\* the sum of the amounts does not fit in a u64
SumOverflows2(a, b) == CarryOut(a, b, 1) = 1
SumOverflows3(a, b, c) ==
    CarryOut(a, b, 1) = 1 \/ CarryOut(WrappingAdd(a, b, 1), c, 1) = 1

OutputSumOverflows ==
    \/ /\ call.op = "build_refund_transaction"
       /\ SumOverflows2(call.alice_balance, call.bob_balance)
    \/ /\ call.op = "build_commitment_transaction"
       /\ SumOverflows2(call.local_amount, call.remote_amount)
    \/ /\ call.op = "build_htlc_commitment_transaction"
       /\ SumOverflows3(call.local_amount, call.remote_amount, call.htlc_amount)

(***************************************************************************)
(* C3: build_htlc_timeout_transaction returns a transaction whose          *)
(* lock_time is cltv_expiry and whose single input's sequence number is    *)
(* not 0xFFFFFFFF, whatever htlc_txin the caller supplies.                 *)
(***************************************************************************)
C3_TimeoutLocktimeTakesEffect ==
    call.op = "build_htlc_timeout_transaction" =>
        /\ result.tx.lock_time.n = call.cltv_expiry
        /\ Len(result.tx.input) = 1
        /\ result.tx.input[1].sequence # SequenceMax

(***************************************************************************)
(* C4: the outputs of build_refund_transaction,                            *)
(* build_commitment_transaction and build_htlc_commitment_transaction are  *)
(* in ascending order of value, equal values in ascending byte order of    *)
(* script_pubkey; build_refund_transaction puts the lower balance first,   *)
(* whichever party holds it.                                               *)
(***************************************************************************)
C4_OutputsInCanonicalOrder ==
    /\ call.op \in SortingBuilders => InCanonicalOrder(result.tx.output)
    /\ call.op = "build_refund_transaction" =>
          /\ LexLess(call.alice_balance, call.bob_balance) =>
                result.tx.output[1] = [value |-> call.alice_balance,
                                       script_pubkey |-> P2wpkh(call.alice_pubkey)]
          /\ LexLess(call.bob_balance, call.alice_balance) =>
                result.tx.output[1] = [value |-> call.bob_balance,
                                       script_pubkey |-> P2wpkh(call.bob_pubkey)]

\* a refund whose second-built output (bob's) holds the lower balance and
\* comes first
C4_Witness ==
    /\ call.op = "build_refund_transaction"
    /\ LexLess(call.bob_balance, call.alice_balance)
    /\ result.tx.output[1].value = call.bob_balance
    /\ result.tx.output[2].value = call.alice_balance

(***************************************************************************)
(* C5: the order depends only on the multiset of outputs: sorting any      *)
(* permutation of the outputs of build_htlc_commitment_transaction (or of  *)
(* build_commitment_transaction) with the builder's comparator gives the   *)
(* sequence the builder returned; the identity permutation is idempotence. *)
(***************************************************************************)
C5_OrderIndependentOfConstruction ==
    call.op \in { "build_commitment_transaction", "build_htlc_commitment_transaction" } =>
        \A p \in Permutations(1 .. Len(result.tx.output)) :
            sort_by(Permuted(result.tx.output, p), call.op) = result.tx.output

\* an HTLC commitment with two outputs of equal value and different scripts
C5_Witness ==
    /\ call.op = "build_htlc_commitment_transaction"
    /\ Len(result.tx.output) = 3
    /\ \E i \in 1 .. 3, j \in 1 .. 3 :
          /\ i # j
          /\ result.tx.output[i].value = result.tx.output[j].value
          /\ result.tx.output[i].script_pubkey # result.tx.output[j].script_pubkey

(***************************************************************************)
(* C6: two_of_two_multisig_witness_script(pkA, pkB) is exactly OP_2,       *)
(* push(pkA), push(pkB), OP_2, OP_CHECKMULTISIG, the keys in the caller's  *)
(* order; for pkA # pkB it differs from the script of (pkB, pkA).          *)
(***************************************************************************)
C6_MultisigKeysInCallerOrder ==
    call.op = "two_of_two_multisig_witness_script" =>
        /\ result.script =
              << 82, 2 >> \o SerializeKey(call.pubkey1) \o << 2 >>
                 \o SerializeKey(call.pubkey2) \o << 82, 174 >>
        /\ call.pubkey1 # call.pubkey2 =>
              result.script # two_of_two_multisig_witness_script(call.pubkey2, call.pubkey1)

\* a call whose first key is the greater one in byte order
C6_Witness ==
    /\ call.op = "two_of_two_multisig_witness_script"
    /\ LexLess(SerializeKey(call.pubkey2), SerializeKey(call.pubkey1))
    /\ Len(result.script) = 9

(***************************************************************************)
(* C7: to_local, and every builder that calls it, fails with InvalidDelay  *)
(* and yields no script or transaction when to_self_delay is negative or   *)
(* above 65535.                                                            *)
(***************************************************************************)
C7_InvalidDelayRejected ==
    (call.op \in DelayBuilders /\ ~DelayInRange(call.to_self_delay)) =>
        /\ result.kind = "error"
        /\ result.error = "InvalidDelay"

(***************************************************************************)
(* C8: a builder with several outputs reports AmountOverflow instead of    *)
(* returning a transaction when the sum of its output values exceeds the   *)
(* u64 range.                                                              *)
(***************************************************************************)
C8_AmountOverflowReported ==
    OutputSumOverflows =>
        /\ result.kind = "error"
        /\ result.error = "AmountOverflow"

(***************************************************************************)
(* C9: build_funding_transaction returns version 2, lock time 0, the       *)
(* caller's inputs unchanged and in order, and exactly one output: amount, *)
(* paid to the P2WSH of two_of_two_multisig_witness_script(alice, bob).    *)
(***************************************************************************)
C9_FundingTransactionShape ==
    call.op = "build_funding_transaction" =>
        /\ result.tx.version = 2
        /\ result.tx.lock_time = [unit |-> "Blocks", n |-> << 0, 0 >>]
        /\ result.tx.input = call.txins
        /\ result.tx.output =
              << [value |-> call.amount,
                  script_pubkey |->
                      P2wsh(two_of_two_multisig_witness_script(call.alice_pubkey,
                                                               call.bob_pubkey))] >>

\* a funding transaction of two different inputs and two different keys
C9_Witness ==
    /\ call.op = "build_funding_transaction"
    /\ call.alice_pubkey # call.bob_pubkey
    /\ Len(call.txins) = 2
    /\ call.txins[1] # call.txins[2]
    /\ Len(result.tx.output) = 1

(***************************************************************************)
(* C10: sorting keeps each amount with its script: the outputs of          *)
(* build_htlc_commitment_transaction are, as a multiset, (local_amount,    *)
(* P2WSH of to_local), (remote_amount, P2WPKH of remote_pubkey) and        *)
(* (htlc_amount, P2WSH of the offered-HTLC script); those of               *)
(* build_commitment_transaction are the first two.                         *)
(***************************************************************************)
C10_AmountsStayWithScripts ==
    LET local == [value |-> call.local_amount,
                  script_pubkey |->
                      P2wsh(to_local(call.revocation_pubkey, call.to_local_delayed_pubkey,
                                     call.to_self_delay))]
        remote == [value |-> call.remote_amount,
                   script_pubkey |-> P2wpkh(call.remote_pubkey)]
        htlc == [value |-> call.htlc_amount,
                 script_pubkey |->
                     P2wsh(build_htlc_offerer_witness_script(call.revocation_pubkey,
                               call.remote_htlc_pubkey, call.local_htlc_pubkey,
                               call.payment_hash160))]
    IN  /\ call.op = "build_htlc_commitment_transaction" =>
              SameMultiset(result.tx.output, << local, remote, htlc >>)
        /\ call.op = "build_commitment_transaction" =>
              SameMultiset(result.tx.output, << local, remote >>)

\* an HTLC commitment whose three amounts differ and whose outputs the sort
\* moved: the HTLC output, built last, comes first
C10_Witness ==
    /\ call.op = "build_htlc_commitment_transaction"
    /\ call.htlc_amount # call.local_amount
    /\ call.htlc_amount # call.remote_amount
    /\ call.local_amount # call.remote_amount
    /\ result.tx.output[1].value = call.htlc_amount
    /\ result.tx.output[3].value = call.local_amount

=============================================================================
